---- MODULE Spec2Model ----
(***************************************************************************)
(* Model of sn0int's email model (src/models/email.rs): the emails table   *)
(* with its CRUD, scoping, insert and upsert/update operations, the        *)
(* breach relationship resolution, and the fetch -> diff -> apply flow of  *)
(* one or several workers.                                                 *)
(***************************************************************************)
EXTENDS Integers, FiniteSets, Sequences, TLC

\* ---------------------------------------------------------------- bounds
MaxId == 2
NumKeys == 2
NumWorkers == 2
MaxBreaches == 2
MaxLinks == 2

Keys == 1..NumKeys
Ids == 1..MaxId
Workers == 1..NumWorkers
BreachIds == 1..MaxBreaches

\* ------------------------------------------------------- Option<bool>
None == [some |-> FALSE, val |-> FALSE]
Some(x) == [some |-> TRUE, val |-> x]
OptBool == {None, Some(TRUE), Some(FALSE)}

\* --------------------------------------------------------- the records
\* struct Email { id, value, unscoped, valid }
Email == [id : Ids, value : Keys, unscoped : BOOLEAN, valid : OptBool]
NoEmail == [id |-> 0, value |-> 0, unscoped |-> FALSE, valid |-> None]

\* struct NewEmail { value, valid }
NewEmail == [value : Keys, valid : OptBool]
NoNew == [value |-> 0, valid |-> None]

\* struct EmailUpdate { id, valid }
EmailUpdate == [id : Ids, valid : OptBool]
NoUpdate == [id |-> 0, valid |-> None]

\* Filter: a predicate over the columns of the emails table (filter.sql())
NoFilter == [field |-> "none", value |-> 0, valid |-> None, unscoped |-> FALSE]
Filters ==
    {[NoFilter EXCEPT !.field = "all"]}
    \cup {[NoFilter EXCEPT !.field = "value", !.value = k] : k \in Keys}
    \cup {[NoFilter EXCEPT !.field = "valid", !.valid = v] : v \in OptBool}
    \cup {[NoFilter EXCEPT !.field = "unscoped", !.unscoped = b] : b \in BOOLEAN}

Matches(f, e) ==
    CASE f.field = "all" -> TRUE
      [] f.field = "value" -> e.value = f.value
      [] f.field = "valid" -> e.valid = f.valid
      [] f.field = "unscoped" -> e.unscoped = f.unscoped
      [] OTHER -> FALSE

\* Result<T>: an error is the store's (diesel's) error, wrapped or not into
\* the crate's Error by Error::from
NoErr == [wrapped |-> FALSE, cause |-> ""]
DieselErr(c) == [wrapped |-> FALSE, cause |-> c]
Ok(v) == [ok |-> TRUE, err |-> NoErr, val |-> v]
Err(e, dflt) == [ok |-> FALSE, err |-> e, val |-> dflt]

\* Error::from(e): wraps the store's error, keeping its cause
ErrorFrom(e) == [e EXCEPT !.wrapped = TRUE]

\* `?` and .map_err(Error::from) on a Result
MapErr(r) == IF r.ok THEN r ELSE [r EXCEPT !.err = ErrorFrom(r.err)]

\* ------------------------------------------------------- impl Model for Email
list(db) == db

filter(db, f) == {e \in db : Matches(f, e)}

\* diesel::delete(emails.filter(filter.sql())).execute(): rows left, count
delete(db, f) ==
    [db |-> db \ filter(db, f), result |-> Ok(Cardinality(filter(db, f)))]

delete_id(db, my_id) ==
    [db |-> {e \in db : e.id # my_id},
     result |-> Ok(Cardinality({e \in db : e.id = my_id}))]

\* .first::<Self>(): the first matching row, or diesel's NotFound
first(rows, dflt) ==
    IF rows = {} THEN Err(DieselErr("NotFound"), dflt)
    ELSE Ok(CHOOSE e \in rows : \A o \in rows : e.id <= o.id)

\* .optional(): Err(NotFound) becomes Ok(None); the rest is kept
optional(r) ==
    IF r.ok THEN [ok |-> TRUE, err |-> NoErr, some |-> TRUE, val |-> r.val]
    ELSE IF r.err = DieselErr("NotFound")
         THEN [ok |-> TRUE, err |-> NoErr, some |-> FALSE, val |-> r.val]
         ELSE [ok |-> FALSE, err |-> r.err, some |-> FALSE, val |-> r.val]

by_id(db, my_id) == MapErr(first({e \in db : e.id = my_id}, NoEmail))

get(db, query) == MapErr(first({e \in db : e.value = query}, NoEmail))

\* get_opt without the NotFound -> None recovery
get_opt_strict(db, query) ==
    LET r == first({e \in db : e.value = query}, NoEmail)
    IN MapErr([ok |-> r.ok, err |-> r.err, some |-> r.ok, val |-> r.val])

get_opt(db, query) ==
    MapErr(optional(first({e \in db : e.value = query}, NoEmail)))

\* ---------------------------------------------------- impl Scopable for Email
scoped(e) == ~e.unscoped

SetUnscoped(db, f, b) ==
    {IF Matches(f, e) THEN [e EXCEPT !.unscoped = b] ELSE e : e \in db}

\* scope setting the flag the wrong way round
scope_hide(db, f) ==
    [db |-> SetUnscoped(db, f, TRUE),
     result |-> Ok(Cardinality(filter(db, f)))]

scope(db, f) ==
    [db |-> SetUnscoped(db, f, FALSE),
     result |-> Ok(Cardinality(filter(db, f)))]

\* noscope hiding rows by removing them
noscope_delete(db, f) ==
    [db |-> db \ filter(db, f), result |-> Ok(Cardinality(filter(db, f)))]

noscope(db, f) ==
    [db |-> SetUnscoped(db, f, TRUE),
     result |-> Ok(Cardinality(filter(db, f)))]

\* ------------------------------------------------------------ Email::breaches
\* struct Breach { id, value }; the association row (email_id, breach_id,
\* password) with its optional per-relation payload
Breach(b) == [id |-> b, value |-> b]
NoBreach == [id |-> 0, value |-> 0]
NoPassword == [some |-> FALSE, val |-> 0]
Passwords == {NoPassword, [some |-> TRUE, val |-> 1]}

\* .collect::<Result<Vec<_>, _>>(): the first Err, or all the Ok values
RECURSIVE collect(_)
collect(rs) ==
    IF rs = <<>> THEN Ok(<<>>)
    ELSE IF ~Head(rs).ok THEN Err(Head(rs).err, <<>>)
    ELSE LET rest == collect(Tail(rs))
         IN IF rest.ok THEN Ok(<<Head(rs).val>> \o rest.val) ELSE rest

\* breaches skipping the association rows whose breach is missing
breaches_skip(self, bs, bes) ==
    LET Mine(row) == row.email_id = self.id
        Found(row) == \E b \in bs : b.id = row.breach_id
        rows == SelectSeq(SelectSeq(bes, Mine), Found)
    IN Ok([i \in 1..Len(rows) |->
            [breach |-> CHOOSE b \in bs : b.id = rows[i].breach_id,
             password |-> rows[i].password]])

breaches(self, bs, bes) ==
    LET Mine(row) == row.email_id = self.id
        breach_id_pws == SelectSeq(bes, Mine)
        resolve(row) ==
            LET r == first({b \in bs : b.id = row.breach_id}, NoBreach)
            IN IF r.ok THEN Ok([breach |-> r.val, password |-> row.password])
               ELSE Err(r.err, NoBreach)
    IN MapErr(collect([i \in 1..Len(breach_id_pws) |-> resolve(breach_id_pws[i])]))

\* Printable for Breach: the one-line summary, no traversal
printable(b) == Ok([value |-> b.value])

\* Detailed for Email
detailed(self, bs, bes) ==
    LET r == breaches(self, bs, bes)
    IN IF ~r.ok THEN Err(r.err, NoEmail)
       ELSE LET ps == collect([i \in 1..Len(r.val) |->
                        LET p == printable(r.val[i].breach)
                        IN IF p.ok
                           THEN Ok([breach |-> p.val, password |-> r.val[i].password])
                           ELSE Err(p.err, NoBreach)])
            IN IF ~ps.ok THEN Err(ps.err, NoEmail)
               ELSE Ok([id |-> self.id, value |-> self.value, breaches |-> ps.val,
                        unscoped |-> self.unscoped, valid |-> self.valid])

\* ------------------------------------------- InsertableStruct for NewEmail
\* the store's UNIQUE constraint on emails.value
UniqueViolation(db, n) == \E e \in db : e.value = n.value

\* the row the store creates: generated id, unscoped defaults to false
NewRow(next, n) ==
    [id |-> next, value |-> n.value, unscoped |-> FALSE, valid |-> n.valid]

\* insert replacing the row that holds the key (INSERT OR REPLACE)
insert_replace(db, next, n) ==
    [db |-> {e \in db : e.value # n.value} \cup {NewRow(next, n)},
     next |-> next + 1, result |-> Ok(0)]

insert(db, next, n) ==
    IF UniqueViolation(db, n)
    THEN [db |-> db, next |-> next,
          result |-> MapErr(Err(DieselErr("ConstraintViolation"), 0))]
    ELSE [db |-> db \cup {NewRow(next, n)}, next |-> next + 1, result |-> Ok(0)]

\* ------------------------------------------------ Upsertable for NewEmail
\* Upsertable::upsert_opt: the new value if it differs from the existing one
upsert_opt(ins, existing) == IF ins # existing THEN ins ELSE None

\* upsert without the diff against the existing value
upsert_nodiff(self, existing) == [id |-> existing.id, valid |-> self.valid]

\* upsert with the two arguments of upsert_opt swapped
upsert_swapped(self, existing) ==
    [id |-> existing.id, valid |-> upsert_opt(existing.valid, self.valid)]

\* upsert leaving the id at its default
upsert_noid(self, existing) ==
    [id |-> 0, valid |-> upsert_opt(self.valid, existing.valid)]

upsert(self, existing) ==
    [id |-> existing.id, valid |-> upsert_opt(self.valid, existing.valid)]

\* ------------------------------------------------- Upsert for EmailUpdate
is_dirty(self) == self.valid.some

\* Database::update_email: UPDATE emails SET <the set fields> WHERE id = ?
update_email(db, u) ==
    [db |-> {IF e.id = u.id /\ u.valid.some THEN [e EXCEPT !.valid = u.valid]
             ELSE e : e \in db},
     result |-> Ok(u.id)]

\* apply writing an unset valid as NULL
apply_null(self, db) ==
    [db |-> {IF e.id = self.id THEN [e EXCEPT !.valid = self.valid] ELSE e : e \in db},
     result |-> Ok(self.id)]

\* apply that only fills a valid that is still NULL
apply_first_wins(self, db) ==
    [db |-> {IF e.id = self.id /\ self.valid.some /\ ~e.valid.some
             THEN [e EXCEPT !.valid = self.valid] ELSE e : e \in db},
     result |-> Ok(self.id)]

apply(self, db) == update_email(db, self)

\* ================================================================ the state
VARIABLES
    emails,         \* the emails table: a set of Email rows
    nextId,         \* the id the store generates next
    breach_rows,    \* the breaches table
    nextBreach,     \* the breach id the store generates next
    breach_emails,  \* the breach_emails association rows, in store order
    pc,             \* per worker: its position in fetch -> diff -> apply
    new,            \* per worker: the NewEmail it upserts
    snap,           \* per worker: the Email it fetched
    upd,            \* per worker: the EmailUpdate it computed
    res             \* the last operation and what it returned

vars == <<emails, nextId, breach_rows, nextBreach, breach_emails,
          pc, new, snap, upd, res>>

store == <<emails, nextId>>
rel == <<breach_rows, nextBreach, breach_emails>>
flow == <<pc, new, snap, upd>>

Init ==
    /\ emails = {}
    /\ nextId = 1
    /\ breach_rows = {}
    /\ nextBreach = 1
    /\ breach_emails = <<>>
    /\ pc = [w \in Workers |-> "idle"]
    /\ new = [w \in Workers |-> NoNew]
    /\ snap = [w \in Workers |-> NoEmail]
    /\ upd = [w \in Workers |-> NoUpdate]
    /\ res = [op |-> "init"]

IdsOf(rows) == {e.id : e \in rows}

\* ------------------------------------------------------- store operations
Insert(n) ==
    LET r == insert(emails, nextId, n)
    IN /\ UniqueViolation(emails, n) \/ nextId <= MaxId
       /\ emails' = r.db
       /\ nextId' = r.next
       /\ res' = [op |-> "insert", new |-> n, result |-> r.result]
       /\ UNCHANGED <<rel, flow>>

Delete(f) ==
    LET r == delete(emails, f)
    IN /\ emails' = r.db
       /\ res' = [op |-> "delete", filter |-> f,
                  matched |-> IdsOf(filter(emails, f)), result |-> r.result]
       /\ UNCHANGED <<nextId, rel, flow>>

DeleteId(i) ==
    LET r == delete_id(emails, i)
    IN /\ emails' = r.db
       /\ res' = [op |-> "delete_id", id |-> i, result |-> r.result]
       /\ UNCHANGED <<nextId, rel, flow>>

Scope(f) ==
    LET r == scope(emails, f)
    IN /\ emails' = r.db
       /\ res' = [op |-> "scope", filter |-> f,
                  matched |-> IdsOf(filter(emails, f)), result |-> r.result]
       /\ UNCHANGED <<nextId, rel, flow>>

Noscope(f) ==
    LET r == noscope(emails, f)
    IN /\ emails' = r.db
       /\ res' = [op |-> "noscope", filter |-> f,
                  matched |-> IdsOf(filter(emails, f)), result |-> r.result]
       /\ UNCHANGED <<nextId, rel, flow>>

Get(k) ==
    /\ res' = [op |-> "get", query |-> k, result |-> get(emails, k)]
    /\ UNCHANGED <<store, rel, flow>>

GetOpt(k) ==
    /\ res' = [op |-> "get_opt", query |-> k, result |-> get_opt(emails, k)]
    /\ UNCHANGED <<store, rel, flow>>

Apply(u) ==
    LET r == apply(u, emails)
    IN /\ emails' = r.db
       /\ res' = [op |-> "apply", upd |-> u, result |-> r.result]
       /\ UNCHANGED <<nextId, rel, flow>>

\* ------------------------------------------ the fetch -> diff -> apply flow
Fetch(w, n) ==
    LET r == get_opt(emails, n.value)
    IN /\ pc[w] = "idle"
       /\ r.ok /\ r.some
       /\ pc' = [pc EXCEPT ![w] = "fetched"]
       /\ new' = [new EXCEPT ![w] = n]
       /\ snap' = [snap EXCEPT ![w] = r.val]
       /\ res' = [op |-> "fetch", worker |-> w]
       /\ UNCHANGED <<store, rel, upd>>

UpsertStep(w) ==
    /\ pc[w] = "fetched"
    /\ pc' = [pc EXCEPT ![w] = "diffed"]
    /\ upd' = [upd EXCEPT ![w] = upsert(new[w], snap[w])]
    /\ res' = [op |-> "upsert", worker |-> w]
    /\ UNCHANGED <<store, rel, new, snap>>

Reset(w) ==
    /\ pc' = [pc EXCEPT ![w] = "idle"]
    /\ new' = [new EXCEPT ![w] = NoNew]
    /\ snap' = [snap EXCEPT ![w] = NoEmail]
    /\ upd' = [upd EXCEPT ![w] = NoUpdate]

SkipStep(w) ==
    /\ pc[w] = "diffed"
    /\ ~is_dirty(upd[w])
    /\ Reset(w)
    /\ res' = [op |-> "skip", worker |-> w]
    /\ UNCHANGED <<store, rel>>

ApplyStep(w) ==
    LET r == apply(upd[w], emails)
    IN /\ pc[w] = "diffed"
       /\ is_dirty(upd[w])
       /\ emails' = r.db
       /\ pc' = [pc EXCEPT ![w] = "applied"]
       /\ res' = [op |-> "apply", upd |-> upd[w], result |-> r.result]
       /\ UNCHANGED <<nextId, rel, new, snap, upd>>

Refetch(w) ==
    LET r == get_opt(emails, new[w].value)
    IN /\ pc[w] = "applied"
       /\ pc' = [pc EXCEPT ![w] = "refetched"]
       /\ snap' = [snap EXCEPT ![w] = r.val]
       /\ res' = [op |-> "refetch", worker |-> w]
       /\ UNCHANGED <<store, rel, new, upd>>

ReupsertStep(w) ==
    /\ pc[w] = "refetched"
    /\ pc' = [pc EXCEPT ![w] = "rediffed"]
    /\ upd' = [upd EXCEPT ![w] = upsert(new[w], snap[w])]
    /\ res' = [op |-> "reupsert", worker |-> w]
    /\ UNCHANGED <<store, rel, new, snap>>

Finish(w) ==
    /\ pc[w] = "rediffed"
    /\ Reset(w)
    /\ res' = [op |-> "finish", worker |-> w]
    /\ UNCHANGED <<store, rel>>

\* -------------------------------------------------- the single-writer program
Writer == CHOOSE w \in Workers : \A o \in Workers : w <= o
AllIdle == \A w \in Workers : pc[w] = "idle"

DoInsert == AllIdle /\ \E n \in NewEmail : Insert(n)
DoDelete == AllIdle /\ \E f \in Filters : Delete(f)
DoDeleteId == AllIdle /\ \E i \in Ids : DeleteId(i)
DoScope == AllIdle /\ \E f \in Filters : Scope(f)
DoNoscope == AllIdle /\ \E f \in Filters : Noscope(f)
DoGet == AllIdle /\ \E k \in Keys : Get(k)
DoGetOpt == AllIdle /\ \E k \in Keys : GetOpt(k)
DoApply == AllIdle /\ \E u \in EmailUpdate : Apply(u)
DoFetch == AllIdle /\ \E n \in NewEmail : Fetch(Writer, n)
DoUpsert == UpsertStep(Writer)
DoSkip == SkipStep(Writer)
DoApplyStep == ApplyStep(Writer)
DoRefetch == Refetch(Writer)
DoReupsert == ReupsertStep(Writer)
DoFinish == Finish(Writer)

Next ==
    \/ DoInsert \/ DoDelete \/ DoDeleteId \/ DoScope \/ DoNoscope
    \/ DoGet \/ DoGetOpt \/ DoApply
    \/ DoFetch \/ DoUpsert \/ DoSkip \/ DoApplyStep
    \/ DoRefetch \/ DoReupsert \/ DoFinish

Spec == Init /\ [][Next]_vars

\* ------------------------------------------- several workers, one store
\* the workers target a store of at most two emails; every worker upserts
\* once: it stops after its re-fetch
WInsert == Cardinality(emails) <= 1 /\ \E n \in NewEmail : Insert(n)
WFetch == \E w \in Workers : \E n \in NewEmail : Fetch(w, n)
WUpsert == \E w \in Workers : UpsertStep(w)
WSkip == \E w \in Workers : SkipStep(w)
WApplyStep == \E w \in Workers : ApplyStep(w)
WRefetch == \E w \in Workers : Refetch(w)

NextConc ==
    \/ WInsert \/ WFetch \/ WUpsert \/ WSkip \/ WApplyStep
    \/ WRefetch

SpecConc == Init /\ [][NextConc]_vars

\* ------------------------------------------------ breaches of an email
\* the breaches table and the association rows, as the other models of
\* the crate write them
AddBreach ==
    /\ nextBreach <= MaxBreaches
    /\ breach_rows' = breach_rows \cup {Breach(nextBreach)}
    /\ nextBreach' = nextBreach + 1
    /\ res' = [op |-> "add_breach", id |-> nextBreach]
    /\ UNCHANGED <<store, breach_emails, flow>>

Link(e, b, pw) ==
    /\ Len(breach_emails) < MaxLinks
    /\ e \in IdsOf(emails) /\ b \in IdsOf(breach_rows)
    /\ breach_emails' = Append(breach_emails,
                               [email_id |-> e, breach_id |-> b, password |-> pw])
    /\ res' = [op |-> "link", email_id |-> e, breach_id |-> b]
    /\ UNCHANGED <<store, breach_rows, nextBreach, flow>>

DeleteBreach(b) ==
    /\ b \in IdsOf(breach_rows)
    /\ breach_rows' = {r \in breach_rows : r.id # b}
    /\ res' = [op |-> "delete_breach", id |-> b]
    /\ UNCHANGED <<store, nextBreach, breach_emails, flow>>

Breaches(e) ==
    /\ res' = [op |-> "breaches", email |-> e,
               result |-> breaches(e, breach_rows, breach_emails)]
    /\ UNCHANGED <<store, rel, flow>>

Detailed(e) ==
    /\ res' = [op |-> "detailed", email |-> e,
               result |-> detailed(e, breach_rows, breach_emails)]
    /\ UNCHANGED <<store, rel, flow>>

\* at most two emails own association rows
RInsert == Cardinality(emails) <= 1 /\ \E k \in Keys : Insert([value |-> k, valid |-> None])
RAddBreach == AddBreach
RLink == \E e \in Ids : \E b \in BreachIds : \E pw \in Passwords : Link(e, b, pw)
RDeleteBreach == \E b \in BreachIds : DeleteBreach(b)
RBreaches == \E e \in emails : Breaches(e)
RDetailed == \E e \in emails : Detailed(e)

NextRel ==
    \/ RInsert \/ RAddBreach \/ RLink \/ RDeleteBreach
    \/ RBreaches \/ RDetailed

SpecRel == Init /\ [][NextRel]_vars

\* ================================================================ properties
ScopeOps == {"scope", "noscope"}

\* C1 (as stated): after upsert(N, E) the update is dirty exactly when
\* N.valid differs from E.valid, and its valid field is N.valid when the two
\* differ and unset when they are equal.
C1_Original ==
    \A w \in Workers : pc[w] = "diffed" =>
        /\ is_dirty(upd[w]) <=> (new[w].valid # snap[w].valid)
        /\ upd[w].valid = IF new[w].valid # snap[w].valid
                           THEN new[w].valid ELSE None

\* C1 (amended): after upsert(N, E) the update is dirty exactly when N.valid
\* is set (Some) and differs from E.valid; its valid field is N.valid when
\* the two differ (so unset when N.valid is None) and unset when they are
\* equal.
C1_UpsertDirty ==
    \A w \in Workers : pc[w] = "diffed" =>
        /\ new[w].value = snap[w].value
        /\ is_dirty(upd[w]) <=> (new[w].valid.some /\ new[w].valid # snap[w].valid)
        /\ upd[w].valid = IF new[w].valid # snap[w].valid
                           THEN new[w].valid ELSE None

C1_Witness ==
    \E w \in Workers :
        /\ pc[w] = "diffed"
        /\ ~new[w].valid.some /\ snap[w].valid.some
        /\ ~is_dirty(upd[w])

\* C2: an insert of an existing natural key fails with ConstraintViolation
\* and changes no row; an insert of an absent key adds exactly one row with
\* a fresh id and changes no other row; no two emails ever share a key.
UniqueKeys ==
    \A e1, e2 \in emails : (e1.value = e2.value \/ e1.id = e2.id) => e1 = e2

C2_InsertStep ==
    res'.op = "insert" =>
        IF \E e \in emails : e.value = res'.new.value
        THEN /\ ~res'.result.ok
             /\ res'.result.err.cause = "ConstraintViolation"
             /\ emails' = emails
        ELSE /\ res'.result.ok
             /\ \E r \in emails' :
                   /\ r.id \notin IdsOf(emails)
                   /\ r.value = res'.new.value
                   /\ r.valid = res'.new.valid
                   /\ r \notin emails
                   /\ emails' = emails \cup {r}

C2_Insert == [](UniqueKeys) /\ [][C2_InsertStep]_vars

C2_Witness ==
    /\ res.op = "insert"
    /\ ~res.result.ok
    /\ Cardinality(emails) = 2

\* C3: applying an update that is not dirty leaves the set of rows and
\* every field of every row as they were, as a re-fetch observes them.
C3_Step ==
    (res'.op = "apply" /\ ~is_dirty(res'.upd)) =>
        /\ emails' = emails
        /\ list(emails') = list(emails)
        /\ \A k \in Keys : get_opt(emails', k) = get_opt(emails, k)

C3_CleanApply == [][C3_Step]_vars

C3_Witness ==
    /\ res.op = "apply"
    /\ ~is_dirty(res.upd)
    /\ \E e \in emails : e.id = res.upd.id /\ e.valid.some

\* C4: with a single writer, once a dirty upsert(N, E) has been applied, the
\* re-fetched entity has valid = N.valid and the same upsert against it is
\* not dirty.
C4_FixedPoint ==
    \A w \in Workers :
        /\ pc[w] = "refetched" =>
              /\ snap[w] \in emails
              /\ snap[w].valid = new[w].valid
        /\ pc[w] = "rediffed" =>
              /\ snap[w].valid = new[w].valid
              /\ ~is_dirty(upd[w])

C4_Witness ==
    /\ pc[Writer] = "rediffed"
    /\ new[Writer].valid = Some(FALSE)
    /\ ~is_dirty(upd[Writer])

\* both scope and noscope are idempotent on every store
Idempotent ==
    \A f \in Filters :
        /\ scope(scope(emails, f).db, f).db = scope(emails, f).db
        /\ noscope(noscope(emails, f).db, f).db = noscope(emails, f).db

Visibility == \A e \in emails : scoped(e) = ~e.unscoped

\* a scope/noscope call directly after a scope/noscope call with the same p
SamePredicate ==
    /\ res.op \in ScopeOps /\ res'.op \in ScopeOps
    /\ res'.filter = res.filter

\* C5 (as stated): scope(p) and noscope(p) are idempotent, and after a
\* sequence of scope(p)/noscope(p) calls with the same p every row the
\* sequence affected has the flag of the last call, for every predicate p
\* over the fields of an email; scoped() is the negation of unscoped.
C5_OriginalStep ==
    SamePredicate =>
        \A e \in emails' : e.id \in (res.matched \cup res'.matched) =>
            e.unscoped = (res'.op = "noscope")

C5_Original == [](Idempotent /\ Visibility) /\ [][C5_OriginalStep]_vars

\* C5 (amended): scope(p) and noscope(p) are idempotent; after a call every
\* row that matched p at that call has the flag of that call, and after a
\* sequence of scope(p)/noscope(p) calls with the same p every row the
\* sequence affected has the flag of the last call provided p does not read
\* the unscoped flag; scoped() is the negation of unscoped.
C5_Step ==
    /\ res'.op \in ScopeOps =>
          \A e \in emails' : e.id \in res'.matched =>
              e.unscoped = (res'.op = "noscope")
    /\ (SamePredicate /\ res'.op = res.op) => emails' = emails
    /\ (SamePredicate /\ res'.filter.field # "unscoped") =>
          \A e \in emails' : e.id \in (res.matched \cup res'.matched) =>
              e.unscoped = (res'.op = "noscope")

C5_LastWins == [](Idempotent /\ Visibility) /\ [][C5_Step]_vars

C5_Witness ==
    /\ res.op = "scope"
    /\ res.filter.field = "valid"
    /\ res.matched # {}
    /\ \E e \in emails : e.unscoped

\* C6: scope and noscope keep the set of stored emails and change nothing
\* but the unscoped flag of the rows matching p; only delete and delete_id
\* remove rows, exactly the matching ones, and return their count.
SameButFlag(old, now, f) ==
    /\ IdsOf(now) = IdsOf(old)
    /\ Cardinality(now) = Cardinality(old)
    /\ \A e \in old : \E e2 \in now :
          /\ e2.id = e.id /\ e2.value = e.value /\ e2.valid = e.valid
          /\ ~Matches(f, e) => e2 = e

C6_Step ==
    /\ res'.op \in ScopeOps => SameButFlag(emails, emails', res'.filter)
    /\ res'.op = "delete" =>
          /\ emails' = {e \in emails : ~Matches(res'.filter, e)}
          /\ res'.result.ok
          /\ res'.result.val = Cardinality({e \in emails : Matches(res'.filter, e)})
    /\ res'.op = "delete_id" =>
          /\ emails' = {e \in emails : e.id # res'.id}
          /\ res'.result.ok
          /\ res'.result.val = Cardinality({e \in emails : e.id = res'.id})
    /\ ~(IdsOf(emails) \subseteq IdsOf(emails')) =>
          res'.op \in {"delete", "delete_id"}

C6_ScopingKeepsData == [][C6_Step]_vars

C6_Witness ==
    /\ res.op = "noscope"
    /\ Cardinality(res.matched) = 1
    /\ Cardinality(emails) = 2
    /\ \E e \in emails : e.id \in res.matched /\ e.valid.some

\* C7: get_opt(key) returns empty exactly when get(key) fails with NotFound;
\* when the key is present both return the same entity; neither changes the
\* store.
C7_Lookups ==
    \A k \in Keys :
        LET g == get(emails, k)
            o == get_opt(emails, k)
        IN /\ o.ok
           /\ ~o.some <=> (~g.ok /\ g.err.cause = "NotFound")
           /\ ~o.some <=> ~(\E e \in emails : e.value = k)
           /\ o.some => (g.ok /\ g.val = o.val /\ g.val \in emails /\ g.val.value = k)

C7_Step ==
    res'.op \in {"get", "get_opt"} =>
        /\ emails' = emails
        /\ res'.op = "get" => res'.result = get(emails, res'.query)
        /\ res'.op = "get_opt" => res'.result = get_opt(emails, res'.query)

C7_GetOpt == [](C7_Lookups) /\ [][C7_Step]_vars

C7_Witness ==
    /\ res.op = "get_opt"
    /\ res.result.ok /\ ~res.result.some
    /\ emails # {}

\* the email has an association row whose breach is not in the store
Dangling(e) ==
    \E i \in 1..Len(breach_emails) :
        /\ breach_emails[i].email_id = e.id
        /\ breach_emails[i].breach_id \notin IdsOf(breach_rows)

RelOps == {"breaches", "detailed"}

C9_Step ==
    res'.op = "apply" =>
        /\ res'.result = Ok(res'.upd.id)
        /\ \A e \in emails' : e.id = res'.upd.id => e.valid = res'.upd.valid
        /\ \A e \in emails : e.id # res'.upd.id => e \in emails'
        /\ IdsOf(emails') = IdsOf(emails)

C9_BlindApply == [][C9_Step]_vars

C9_LostUpdate ==
    \E w1, w2 \in Workers :
        /\ w1 # w2
        /\ pc[w1] = "refetched" /\ pc[w2] = "applied"
        /\ upd[w1].id = upd[w2].id
        /\ is_dirty(upd[w1]) /\ is_dirty(upd[w2])
        /\ upd[w1].valid # upd[w2].valid
        /\ snap[w2].id = upd[w1].id
        /\ snap[w2].valid # upd[w1].valid
        /\ snap[w1].valid = upd[w2].valid
        /\ snap[w1].valid # new[w1].valid
        /\ res.op = "refetch" /\ res.worker = w1

\* C10: the (id, natural key) pairing of a stored email never changes while
\* the row exists; the update that upsert(N, E) gives carries E's id, and
\* applying an update changes no field but valid.
C10_Step ==
    /\ \A e \in emails : \A e2 \in emails' :
          (e2.id = e.id \/ e2.value = e.value) =>
              (e2.id = e.id /\ e2.value = e.value)
    /\ res'.op = "apply" =>
          /\ IdsOf(emails') = IdsOf(emails)
          /\ \A e \in emails : \E e2 \in emails' :
                /\ e2.id = e.id /\ e2.value = e.value
                /\ e2.unscoped = e.unscoped
                /\ e.id # res'.upd.id => e2 = e

C10_UpdateId ==
    \A w \in Workers : pc[w] \in {"diffed", "applied"} =>
        /\ upd[w].id = snap[w].id
        /\ DOMAIN upd[w] = {"id", "valid"}

C10_IdFixed == [](C10_UpdateId) /\ [][C10_Step]_vars

C10_Witness ==
    /\ res.op = "apply"
    /\ pc[Writer] = "applied"
    /\ is_dirty(res.upd)
    /\ Cardinality(emails) = 2
    /\ \E e \in emails : e.unscoped

====
